---- MODULE Spec2Model ----
(***************************************************************************)
(* Model of src/app.py: a Streamlit script that signs a user in with       *)
(* Google OAuth2 (authorization-code grant) and then shows two pages.      *)
(*                                                                         *)
(* The script is executed top to bottom on every run (page load, widget    *)
(* interaction, st.experimental_rerun).  st.session_state and              *)
(* st.query_params outlive a run; everything else is local to the run.     *)
(* A run is a record req[r]; its field pc is the position in the script.   *)
(***************************************************************************)
EXTENDS Integers, FiniteSets

VARIABLES
    session,    \* st.session_state: oauth_token, user, oauth_state
    qp,         \* st.query_params: code, state
    req,        \* the script runs, one record per request slot
    issued,     \* number of uuid4() values drawn so far (line 106)
    nextCode,   \* number of authorization codes the provider has handed out
    submitted,  \* per authorization code: number of POSTs to TOKEN_URL (line 59)
    redeemed    \* authorization codes the token endpoint has answered 2xx for

vars == <<session, qp, req, issued, nextCode, submitted, redeemed>>

-----------------------------------------------------------------------------
(* Bounds *)

MaxReqs == 2
MaxIssued == 3
MaxCodes == 2

Reqs == 1..MaxReqs
Codes == 1..MaxCodes

-----------------------------------------------------------------------------
(* Python values *)

\* the Python value None
None == [tag |-> "None"]
\* "key not in mapping"
Absent == [tag |-> "absent"]
\* a string, identified by a number (a uuid, an authorization code)
Str(n) == [tag |-> "str", v |-> n]

\* missing key of a JSON object
NoField == "<absent>"

\* "is not None" in place of truthiness: "" passes
Truthy_NotNone(v) == v # NoField

\* Python truthiness of a string-valued dict.get(...): None and "" are falsy
Truthy(v) == v \notin {NoField, ""}

\* dict.get(key) with the default left out
Get_NoDefault(v, default) == v

\* dict.get(key, default) on a JSON field
Get(v, default) == IF v = NoField THEN default ELSE v

SCOPE == "openid email profile"

AccessTokens == {"t1", "t2"}

\* JSON bodies a 2xx token response can carry
TokenJsons == {[tag |-> "dict", access_token |-> a] : a \in AccessTokens \cup {NoField, ""}}

\* JSON bodies a 2xx userinfo response can carry
UserJsons == {[tag |-> "dict", email |-> e, picture |-> p] :
                 e \in {NoField, "u@x.com"}, p \in {NoField, "pic.png"}}

ErrorJson == [tag |-> "dict", error |-> "invalid_grant"]

\* what requests.post(TOKEN_URL, ...) can come back with: a transport error
\* (timeout, connection refused), an HTTP error status, or success
TokenResponses ==
    {[transport_ok |-> FALSE, status |-> 0, body |-> None]}
    \cup {[transport_ok |-> TRUE, status |-> 400, body |-> ErrorJson]}
    \cup {[transport_ok |-> TRUE, status |-> 200, body |-> j] : j \in TokenJsons}

UserinfoResponses ==
    {[transport_ok |-> FALSE, status |-> 0, body |-> None]}
    \cup {[transport_ok |-> TRUE, status |-> 401, body |-> ErrorJson]}
    \cup {[transport_ok |-> TRUE, status |-> 200, body |-> j] : j \in UserJsons}

\* An authorization code is single-use: once the token endpoint has answered
\* 2xx for it, every later POST of the same code is refused.
TokenResponsesFor(code, used) ==
    IF code \in used THEN {resp \in TokenResponses : resp.status # 200}
    ELSE TokenResponses

\* requests raises on a transport error; resp.raise_for_status() on 4xx/5xx
Raises(resp) == ~resp.transport_ok \/ resp.status >= 400

-----------------------------------------------------------------------------
(* Helpers: OAuth requests *)

build_login_link(state) ==
    [response_type |-> "code", scope |-> SCOPE, state |-> state,
     access_type |-> "offline", prompt |-> "consent"]

\* result of exchange_code_for_token when the endpoint answers resp
exchange_code_for_token(resp) ==
    IF Raises(resp) THEN [raised |-> TRUE, json |-> None]
    ELSE [raised |-> FALSE, json |-> resp.body]

\* result of fetch_userinfo when the endpoint answers resp
fetch_userinfo(resp) ==
    IF Raises(resp) THEN [raised |-> TRUE, json |-> None]
    ELSE [raised |-> FALSE, json |-> resp.body]

-----------------------------------------------------------------------------
(* Script runs *)

EmptyQP == [code |-> Absent, state |-> Absent]

NoSession == [oauth_token |-> Absent, user |-> Absent, oauth_state |-> Absent]

IdleRun ==
    [pc |-> "idle", trigger |-> "none",
     entry |-> NoSession, entry_qp |-> EmptyQP,
     click_logout |-> FALSE, page |-> "Home", report |-> "none",
     code |-> None, token_json |-> None, access_token |-> NoField,
     userinfo_json |-> None, user |-> None,
     token_status |-> -1, token_result |-> "none", userinfo_result |-> "none",
     token_calls |-> 0, userinfo_calls |-> 0, bearer |-> NoField,
     code_was_redeemed |-> FALSE,
     errors |-> {}, login_link |-> None, sidebar_email |-> NoField,
     welcome_email |-> NoField,
     outcome |-> "none"]

\* a run that starts now
NewRun(trigger, s, q, logout, page, report) ==
    [IdleRun EXCEPT !.pc = "defaults", !.trigger = trigger,
                    !.entry = s, !.entry_qp = q,
                    !.click_logout = logout, !.page = page, !.report = report]

Init ==
    /\ session = NoSession
    /\ qp = EmptyQP
    /\ req = [r \in Reqs |-> IdleRun]
    /\ issued = 0
    /\ nextCode = 0
    /\ submitted = [c \in Codes |-> 0]
    /\ redeemed = {}

\* The provider redirects the browser back with ?code=..&state=..; the state
\* parameter is whatever the URL carries: nothing, a value this session
\* issued (current or stale), or a value it never issued (Str(0)).
StartRedirect(r) ==
    /\ \A o \in Reqs : req[o].pc = "idle"
    /\ nextCode < MaxCodes
    /\ issued < MaxIssued
    /\ \E st \in {Absent} \cup {Str(n) : n \in 0..issued} :
          /\ qp' = [code |-> Str(nextCode + 1), state |-> st]
          /\ req' = [req EXCEPT ![r] = NewRun("redirect", session, qp', FALSE, "Home", "none")]
    /\ nextCode' = nextCode + 1
    /\ UNCHANGED <<session, issued, submitted, redeemed>>

\* A widget interaction (or a reload) runs the script again with the same
\* query parameters.
StartRerun(r) ==
    /\ \A o \in Reqs : req[o].pc = "idle"
    /\ issued < MaxIssued
    /\ \E logout \in BOOLEAN, page \in {"Home", "Data Profiler"},
          report \in {"none", "shown", "failed"} :
          req' = [req EXCEPT ![r] = NewRun("widget", session, qp, logout, page, report)]
    /\ UNCHANGED <<session, qp, issued, nextCode, submitted, redeemed>>

\* lines 72-77 without the "not in st.session_state" tests
SessionDefaults_Reset(s) == [oauth_token |-> None, user |-> None, oauth_state |-> None]

\* lines 72-77
SessionDefaults(s) ==
    [oauth_token |-> IF s.oauth_token = Absent THEN None ELSE s.oauth_token,
     user        |-> IF s.user = Absent THEN None ELSE s.user,
     oauth_state |-> IF s.oauth_state = Absent THEN None ELSE s.oauth_state]

Defaults(r) ==
    /\ req[r].pc = "defaults"
    /\ session' = SessionDefaults(session)
    /\ req' = [req EXCEPT ![r].pc = "callback"]
    /\ UNCHANGED <<qp, issued, nextCode, submitted, redeemed>>

\* line 83 without the "oauth_token is None" test
CallbackCondition_CodeOnly(s, q) == q.code # Absent

\* line 83
CallbackCondition(s, q) == q.code # Absent /\ s.oauth_token = None

\* lines 82-85
CallbackGuard(r) ==
    /\ req[r].pc = "callback"
    /\ IF CallbackCondition(session, qp)
       THEN req' = [req EXCEPT ![r].pc = "exchange", ![r].code = qp.code]
       ELSE req' = [req EXCEPT ![r].pc = "gate"]
    /\ UNCHANGED <<session, qp, issued, nextCode, submitted, redeemed>>

\* lines 86-97 with the userinfo fetch outside the try/if
AfterExchange_AlwaysFetch(result) == "userinfo"

\* lines 91-93 outside the "if access_token"
AfterExchange_FetchOn2xx(result) == IF result.raised THEN "clear" ELSE "userinfo"

\* where the run goes after the token endpoint has answered (lines 86-97)
AfterExchange(result) ==
    IF ~result.raised /\ Truthy(result.json.access_token) THEN "userinfo" ELSE "clear"

\* lines 87-90 with the token stored before access_token is looked at
TokenStored_Unchecked(s, result) ==
    IF ~result.raised THEN [s EXCEPT !.oauth_token = result.json] ELSE s

\* lines 87-90: the session after the token endpoint has answered
TokenStored(s, result) ==
    IF ~result.raised /\ Truthy(result.json.access_token)
    THEN [s EXCEPT !.oauth_token = result.json]
    ELSE s

\* lines 87-90, 94-97
ExchangeToken(r) ==
    /\ req[r].pc = "exchange"
    /\ \E resp \in TokenResponsesFor(req[r].code.v, redeemed) :
          LET result == exchange_code_for_token(resp)
              access_token == IF result.raised THEN NoField
                              ELSE result.json.access_token
          IN  /\ session' = TokenStored(session, result)
              /\ redeemed' = IF resp.status = 200 THEN redeemed \cup {req[r].code.v}
                             ELSE redeemed
              /\ req' = [req EXCEPT
                    ![r].pc = AfterExchange(result),
                    ![r].token_calls = @ + 1,
                    ![r].token_status = resp.status,
                    ![r].code_was_redeemed = req[r].code.v \in redeemed,
                    ![r].token_result = IF result.raised THEN "raised"
                                        ELSE IF Truthy(access_token) THEN "ok"
                                        ELSE "no_token",
                    ![r].access_token = access_token,
                    ![r].token_json = result.json,
                    ![r].errors = IF result.raised
                                  THEN @ \cup {"Error exchanging code for token"}
                                  ELSE IF Truthy(access_token) THEN @
                                  ELSE @ \cup {"No access token received from Google."}]
    /\ submitted' = [submitted EXCEPT ![req[r].code.v] = @ + 1]
    /\ UNCHANGED <<qp, issued, nextCode>>

\* lines 92-93 with line 93 left out
UserStored_Dropped(s, result) == s

\* lines 92-93: the session after the userinfo endpoint has answered
UserStored(s, result) ==
    IF result.raised THEN s ELSE [s EXCEPT !.user = result.json]

\* lines 92-93, 96-97
FetchUserinfo(r) ==
    /\ req[r].pc = "userinfo"
    /\ \E resp \in UserinfoResponses :
          LET result == fetch_userinfo(resp)
          IN  /\ session' = UserStored(session, result)
              /\ req' = [req EXCEPT
                    ![r].pc = "clear",
                    ![r].userinfo_calls = @ + 1,
                    ![r].bearer = req[r].access_token,
                    ![r].userinfo_result = IF result.raised THEN "raised" ELSE "ok",
                    ![r].userinfo_json = result.json,
                    ![r].user = IF result.raised THEN @ ELSE result.json,
                    ![r].errors = IF result.raised
                                  THEN @ \cup {"Error exchanging code for token"}
                                  ELSE @]
    /\ UNCHANGED <<qp, issued, nextCode, submitted, redeemed>>

\* line 99 left out
ClearedQueryParams_Kept(q) == q

\* line 99
ClearedQueryParams(q) == EmptyQP

ClearQueryParams(r) ==
    /\ req[r].pc = "clear"
    /\ qp' = ClearedQueryParams(qp)
    /\ req' = [req EXCEPT ![r].pc = "gate"]
    /\ UNCHANGED <<session, issued, nextCode, submitted, redeemed>>

\* line 104
NotLoggedIn(s) == s.oauth_token = None

\* line 112 left out: the script runs on after the sign-in link
AfterLoginLink_NoStop == "sidebar"

\* line 112: st.stop() ends the run
AfterLoginLink == "done"

\* line 106 guarded by "if oauth_state is None": a pending state is kept
NewState_Reused(s, n) == IF s.oauth_state = None THEN Str(n + 1) ELSE s.oauth_state

\* line 106: str(uuid.uuid4()), a value never drawn before
NewState(s, n) == Str(n + 1)

\* lines 104-112
LoginGate(r) ==
    /\ req[r].pc = "gate"
    /\ IF NotLoggedIn(session)
       THEN LET state == NewState(session, issued)
            IN  /\ issued' = issued + 1
                /\ session' = [session EXCEPT !.oauth_state = state]
                /\ req' = [req EXCEPT ![r].pc = AfterLoginLink,
                                      ![r].login_link = build_login_link(state),
                                      ![r].outcome = "login"]
       ELSE /\ req' = [req EXCEPT ![r].pc = "sidebar"]
            /\ UNCHANGED <<session, issued>>
    /\ UNCHANGED <<qp, nextCode, submitted, redeemed>>

\* lines 137-138
LoggedOut(s) == [s EXCEPT !.oauth_token = None, !.user = None]

\* lines 117-139
Sidebar(r) ==
    /\ req[r].pc = "sidebar"
    /\ LET user == IF session.user = Absent THEN [tag |-> "dict"] ELSE session.user
       IN  IF user = None
           THEN \* user.get(...) on None: AttributeError, not caught
                /\ req' = [req EXCEPT ![r].pc = "done", ![r].outcome = "exception"]
                /\ UNCHANGED session
           ELSE IF req[r].click_logout
           THEN \* st.experimental_rerun(): this run ends, the script runs again
                /\ session' = LoggedOut(session)
                /\ req' = [req EXCEPT ![r] = NewRun("rerun", session', qp, FALSE, "Home", "none")]
           ELSE /\ req' = [req EXCEPT ![r].pc = "page",
                                      ![r].user = user,
                                      ![r].sidebar_email = Get(user.email, "Unknown")]
                /\ UNCHANGED session
    /\ UNCHANGED <<qp, issued, nextCode, submitted, redeemed>>

\* lines 144-225
Page(r) ==
    /\ req[r].pc = "page"
    /\ req' = [req EXCEPT
          ![r].pc = "done",
          ![r].outcome = req[r].page,
          ![r].welcome_email = IF req[r].page = "Home"
                               THEN Get(req[r].user.email, "") ELSE @,
          ![r].errors = IF req[r].page = "Data Profiler" /\ req[r].report = "failed"
                        THEN @ \cup {"Failed to generate Sweetviz report"}
                        ELSE @]
    /\ UNCHANGED <<session, qp, issued, nextCode, submitted, redeemed>>

\* the run is over and its output has been delivered
Finish(r) ==
    /\ req[r].pc = "done"
    /\ req' = [req EXCEPT ![r] = IdleRun]
    /\ UNCHANGED <<session, qp, issued, nextCode, submitted, redeemed>>

Next ==
    \E r \in Reqs :
        \/ StartRedirect(r)
        \/ StartRerun(r)
        \/ Defaults(r)
        \/ CallbackGuard(r)
        \/ ExchangeToken(r)
        \/ FetchUserinfo(r)
        \/ ClearQueryParams(r)
        \/ LoginGate(r)
        \/ Sidebar(r)
        \/ Page(r)
        \/ Finish(r)

Spec == Init /\ [][Next]_vars

\* Overlapping runs of one session: the page is loaded again (a reload, a
\* duplicate tab) with the same query parameters while a run is in flight.
StartOverlapping(r) ==
    /\ req[r].pc = "idle"
    /\ \E o \in Reqs : req[o].pc \notin {"idle", "done"}
    /\ issued + Cardinality({o \in Reqs : req[o].pc # "idle"}) < MaxIssued
    /\ req' = [req EXCEPT ![r] = NewRun("reload", session, qp, FALSE, "Home", "none")]
    /\ UNCHANGED <<session, qp, issued, nextCode, submitted, redeemed>>

NextOverlap == Next \/ \E r \in Reqs : StartOverlapping(r)

\* runs of one session may interleave step by step
SpecOverlap == Init /\ [][NextOverlap]_vars

-----------------------------------------------------------------------------
(* Properties *)

LoggedIn(s) == s.oauth_token \notin {None, Absent}

HasUser(s) == s.user \notin {None, Absent}

\* the run has left the callback block (lines 82-99)
PastCallback(r) == req[r].pc \in {"gate", "sidebar", "page", "done"}

\* the callback's state parameter is missing or is not the stored oauth_state
StateMismatch(r) ==
    \/ req[r].entry_qp.state = Absent
    \/ req[r].entry_qp.state # req[r].entry.oauth_state

\* C1: a callback in which the token endpoint or the userinfo endpoint failed
\* ends with no token stored in the session.
C1_FailedCallbackStoresNoToken ==
    \A r \in Reqs :
        (/\ req[r].pc = "done"
         /\ (req[r].token_result = "raised" \/ req[r].userinfo_result = "raised"))
        => session.oauth_token = None

\* C2: at the end of every request the token is set iff the user is set.
C2_TokenIffUser ==
    \A r \in Reqs : req[r].pc = "done" => (LoggedIn(session) <=> HasUser(session))

\* C3: a callback whose state parameter is absent or differs from the stored
\* oauth_state is rejected: no token endpoint call, no token, no user.
C3_StateMismatchRejected ==
    \A r \in Reqs :
        (/\ PastCallback(r)
         /\ req[r].code # None
         /\ StateMismatch(r))
        => /\ req[r].token_calls = 0
           /\ ~LoggedIn(session)
           /\ ~HasUser(session)

\* C4: a run that starts with a token in the session and a code in the query
\* parameters calls neither endpoint and leaves the session as it found it.
C4_IdempotentCallback ==
    \A r \in Reqs :
        (/\ req[r].pc # "idle"
         /\ LoggedIn(req[r].entry)
         /\ req[r].entry_qp.code # Absent)
        => /\ req[r].token_calls = 0
           /\ req[r].userinfo_calls = 0
           /\ session = req[r].entry

\* a second processing of the same query parameters with a token held
C4_Witness ==
    \E r \in Reqs :
        /\ req[r].pc = "done"
        /\ req[r].trigger = "widget"
        /\ LoggedIn(req[r].entry)
        /\ req[r].entry_qp.code # Absent

\* C5: right after the Log out button was handled the session holds no token,
\* no user and no oauth_state.
C5_LogoutClearsAll ==
    \A r \in Reqs :
        (req[r].trigger = "rerun" /\ req[r].pc = "defaults")
        => session = [oauth_token |-> None, user |-> None, oauth_state |-> None]

\* C6: when the token endpoint fails the session holds neither token nor user,
\* userinfo was not called, an error was shown, and the run ends at the
\* sign-in link.
C6_FailedExchangeLeavesSessionClean ==
    \A r \in Reqs :
        (req[r].token_result = "raised" /\ req[r].pc # "idle")
        => /\ session.oauth_token = None
           /\ session.user = None
           /\ req[r].userinfo_calls = 0
           /\ "Error exchanging code for token" \in req[r].errors
           /\ req[r].pc \in {"clear", "gate", "done"}
           /\ req[r].pc = "done" => req[r].outcome = "login"

\* a run that ended after the token endpoint answered HTTP 400
C6_Witness ==
    \E r \in Reqs :
        /\ req[r].pc = "done"
        /\ req[r].token_status = 400
        /\ req[r].token_result = "raised"

\* C7: a run in which an endpoint failed ends unauthenticated at a fresh
\* sign-in link, and no run ends in an uncaught exception.
C7_ErrorsAreRecoverable ==
    \A r \in Reqs :
        /\ req[r].outcome # "exception"
        /\ (/\ req[r].pc = "done"
            /\ (req[r].token_result = "raised" \/ req[r].userinfo_result = "raised"))
           => /\ ~LoggedIn(session)
              /\ req[r].outcome = "login"
              /\ req[r].login_link = build_login_link(session.oauth_state)

\* C8: every authorization code is posted to the token endpoint at most once;
\* a run posts at most one, only one its query parameters carried, and once it
\* has, the query parameters carry no code any more.
C8_CodeSubmittedAtMostOnce ==
    /\ \A c \in Codes : submitted[c] <= 1
    /\ \A r \in Reqs :
          /\ req[r].token_calls <= 1
          /\ req[r].token_calls = 1 => req[r].entry_qp.code = req[r].code
          /\ (PastCallback(r) /\ req[r].token_calls = 1) => qp.code = Absent

\* a rerun after a failed exchange that performed no exchange of its own
C8_Witness ==
    \E r \in Reqs :
        /\ req[r].pc = "done"
        /\ req[r].trigger = "widget"
        /\ req[r].token_calls = 0
        /\ ~LoggedIn(session)
        /\ \E c \in Codes : submitted[c] = 1

\* C9: the sidebar and the pages are reached only with a token in the session;
\* a run that ends without one ends at the sign-in link.
C9_PagesOnlyWhenLoggedIn ==
    \A r \in Reqs :
        /\ req[r].pc \in {"sidebar", "page"} => LoggedIn(session)
        /\ req[r].outcome \in {"Home", "Data Profiler"} => LoggedIn(session)
        /\ (req[r].pc = "done" /\ ~LoggedIn(session))
           => /\ req[r].outcome = "login"
              /\ req[r].login_link = build_login_link(session.oauth_state)

\* a run that handled a callback, was still unauthenticated and ended at the
\* sign-in link
C9_Witness ==
    \E r \in Reqs :
        /\ req[r].pc = "done"
        /\ req[r].token_calls = 1
        /\ ~LoggedIn(session)
        /\ req[r].outcome = "login"

\* C10: whenever the session holds a token, its oauth_state is None.
C10_StateNullWhenAuthenticated ==
    LoggedIn(session) => session.oauth_state = None

\* C11: when the token endpoint answers 2xx without a usable access_token, no
\* token and no user are stored, userinfo is not called, the error is shown
\* and the same run ends at the sign-in link.
C11_MissingAccessToken ==
    \A r \in Reqs :
        (/\ req[r].token_calls = 1
         /\ req[r].token_status = 200
         /\ req[r].token_json.access_token \in {NoField, ""})
        => /\ session.oauth_token = None
           /\ session.user = None
           /\ req[r].userinfo_calls = 0
           /\ "No access token received from Google." \in req[r].errors
           /\ req[r].pc \in {"clear", "gate", "done"}
           /\ req[r].pc = "done"
              => /\ req[r].outcome = "login"
                 /\ req[r].login_link = build_login_link(session.oauth_state)

\* a run that ended after a 2xx token response with an empty access_token
C11_Witness ==
    \E r \in Reqs :
        /\ req[r].pc = "done"
        /\ req[r].token_status = 200
        /\ req[r].token_json.access_token = ""

\* the token endpoint refused run r's code, which another run had redeemed
SecondRedemptionRejected(r) ==
    /\ req[r].token_calls = 1
    /\ req[r].token_status = 400
    /\ req[r].code_was_redeemed

\* C12: when two overlapping runs post the same code and the provider refuses
\* the second one, the refusal is shown as a caught error, neither run ends in
\* an uncaught exception, and the token and user stored by the run whose
\* redemption succeeded stay in the session.
C12_RejectedRedemptionIsHarmless ==
    \A r, o \in Reqs :
        (/\ r # o
         /\ SecondRedemptionRejected(r)
         /\ req[o].code = req[r].code
         /\ req[o].token_result = "ok"
         /\ req[o].userinfo_result # "raised")
        => /\ "Error exchanging code for token" \in req[r].errors
           /\ req[r].outcome # "exception"
           /\ req[o].outcome # "exception"
           /\ session.oauth_token = req[o].token_json
           /\ req[o].userinfo_result = "ok" => session.user = req[o].userinfo_json

\* C13: a run that starts unauthenticated with a code, gets a token response
\* with an access_token and a userinfo response, leaves the session holding
\* exactly these two responses and goes on to the pages, not to the sign-in
\* link.
C13_HappyPath ==
    \A r \in Reqs :
        (/\ ~LoggedIn(req[r].entry)
         /\ req[r].token_result = "ok"
         /\ req[r].userinfo_result = "ok")
        => /\ session.oauth_token = req[r].token_json
           /\ session.user = req[r].userinfo_json
           /\ req[r].pc \in {"clear", "gate", "sidebar", "page", "done"}
           /\ req[r].login_link = None
           /\ req[r].pc = "done"
              => /\ req[r].outcome \in {"Home", "Data Profiler"}
                 /\ req[r].sidebar_email = Get(req[r].userinfo_json.email, "Unknown")

\* the provider's email is what the Home page greets
C13_Witness ==
    \E r \in Reqs :
        /\ req[r].pc = "done"
        /\ req[r].entry_qp.code # Absent
        /\ req[r].token_result = "ok"
        /\ req[r].userinfo_result = "ok"
        /\ req[r].outcome = "Home"
        /\ req[r].welcome_email = "u@x.com"
        /\ session.user.email = "u@x.com"

\* C14: every build of the sign-in link stores a state that differs from the
\* pending one and from every state issued before, puts that state in the
\* link, and leaves the token, the user and the query parameters alone.
C14_FreshStatePerLink ==
    [][issued' # issued
       => /\ session'.oauth_state \notin {None, Absent}
          /\ session'.oauth_state # session.oauth_state
          /\ \A n \in 1..issued : session'.oauth_state # Str(n)
          /\ session'.oauth_token = session.oauth_token
          /\ session'.user = session.user
          /\ qp' = qp
          /\ \E r \in Reqs :
                req'[r].login_link = build_login_link(session'.oauth_state)]_vars

\* a second link was built and its state replaced the stale pending one
C14_Witness ==
    \E r \in Reqs :
        /\ req[r].pc = "done"
        /\ req[r].outcome = "login"
        /\ req[r].entry.oauth_state = Str(1)
        /\ session.oauth_state = Str(2)
        /\ req[r].login_link.state = Str(2)

\* the run has rendered the sidebar for the user bound at line 117
DisplayResolved(r) ==
    \/ req[r].pc = "page"
    \/ req[r].pc = "done" /\ req[r].outcome \in {"Home", "Data Profiler"}

IsLogoutStep ==
    \E r \in Reqs :
        /\ req[r].pc = "sidebar"
        /\ req[r].click_logout
        /\ req'[r].trigger = "rerun"

\* C16: while the session holds a token, no step but the logout changes the
\* token, and none but the logout changes the user once it is set (the only
\* other write of the user is the callback run storing it after the token).
C16_StaysAuthenticated ==
    [][LoggedIn(session)
       => \/ IsLogoutStep
          \/ /\ session'.oauth_token = session.oauth_token
             /\ \/ session'.user = session.user
                \/ /\ session.user = None
                   /\ \E r \in Reqs : req[r].pc = "userinfo" /\ req'[r].pc = "clear"]_vars

\* an authenticated session that was left as it was by a run that carried a
\* code and failed to generate a report
C16_Witness ==
    \E r \in Reqs :
        /\ req[r].pc = "done"
        /\ req[r].trigger = "widget"
        /\ req[r].entry_qp.code # Absent
        /\ req[r].outcome = "Data Profiler"
        /\ req[r].report = "failed"
        /\ LoggedIn(session)
        /\ HasUser(session)
        /\ session = req[r].entry

\* C17: a run calls the userinfo endpoint at most once, only after its own
\* token endpoint call was answered 2xx with a non-empty access_token, and
\* with that access_token as the bearer; a run without a token exchange does
\* not call it.
C17_UserinfoAfterToken ==
    \A r \in Reqs :
        /\ req[r].userinfo_calls <= 1
        /\ req[r].token_calls = 0 => req[r].userinfo_calls = 0
        /\ (req[r].userinfo_calls = 1 \/ req[r].pc = "userinfo")
           => /\ req[r].token_calls = 1
              /\ req[r].token_status = 200
              /\ req[r].token_json.access_token \notin {NoField, ""}
              /\ req[r].access_token = req[r].token_json.access_token
        /\ req[r].userinfo_calls = 1
           => req[r].bearer = req[r].token_json.access_token

\* a userinfo call made with the access_token the token endpoint returned
C17_Witness ==
    \E r \in Reqs :
        /\ req[r].userinfo_calls = 1
        /\ req[r].token_json.access_token = "t2"
        /\ req[r].bearer = "t2"

\* C18: the run started by a logout performs no token exchange and ends
\* unauthenticated at the sign-in link.
C18_NoExchangeAfterLogout ==
    \A r \in Reqs :
        req[r].trigger = "rerun"
        => /\ req[r].token_calls = 0
           /\ req[r].pc = "done"
              => /\ req[r].outcome = "login"
                 /\ ~LoggedIn(session)

\* C19: a token stored in the session has a non-empty access_token.
C19_StoredTokenHasAccessToken ==
    LoggedIn(session) => session.oauth_token.access_token \notin {NoField, ""}

\* a token response has just been stored
C19_Witness ==
    \E r \in Reqs :
        /\ req[r].pc = "userinfo"
        /\ session.oauth_token = req[r].token_json
        /\ session.oauth_token.access_token = "t1"

====
